---- MODULE Spec2Model ----
(***************************************************************************)
(* Model of api.py: a FastAPI service over three SQLite tables             *)
(* (centros_treinamento, categorias, atletas) with four endpoints.         *)
(* Every request runs in its own worker with its own Session; the          *)
(* database serialises writers (one write transaction at a time) and       *)
(* enforces the UNIQUE columns at INSERT time.  An INSERT that finds the   *)
(* write transaction taken waits for it (SQLite's busy timeout is not      *)
(* modelled).  Whether the FOREIGN KEY clauses are enforced depends on the *)
(* SQLite library, since the engine issues no PRAGMA: fkEnforced is chosen *)
(* in Init and never changes.                                              *)
(***************************************************************************)
EXTENDS Integers, Sequences, FiniteSets, TLC

(* ------------------------------ bounds --------------------------------- *)
\* at most this many distinct values of each unique column are ever sent
MaxCentros == 1
MaxCategorias == 1
MaxAtletas == 2

\* the workers that serve requests concurrently, each with its own Session
Procs == {1, 2}

(* ------------------------------ inputs --------------------------------- *)
\* names of training centres / categories sent by clients
Nomes == {"T", "U"}

\* athlete names are strings of characters; "A","N" are upper-case letters
Ana == <<"A", "n">>
Bob == <<"b">>

\* request bodies of POST /centros_treinamento/ and POST /categorias/:
\* a body may or may not carry the "id" field
NomeBodies == [nome : Nomes] \cup [id : {0}, nome : Nomes]

\* request bodies of POST /atletas/
AtletaBodies ==
    { [nome |-> Ana, cpf |-> "",  centro_treinamento_id |-> 1, categoria_id |-> 1],
      [nome |-> Bob, cpf |-> "1", centro_treinamento_id |-> 1, categoria_id |-> 1],
      [nome |-> Ana, cpf |-> "1", centro_treinamento_id |-> 2, categoria_id |-> 2],
      [nome |-> Bob, cpf |-> "2", centro_treinamento_id |-> 1, categoria_id |-> 2] }

\* query strings of GET /atletas/ ; nome and cpf are optional
Queries ==
    { [limit |-> 2, offset |-> 0], [limit |-> 2, offset |-> 2], [limit |-> 1, offset |-> 1] }
    \cup { [nome |-> n, limit |-> 2, offset |-> 0] : n \in { <<"a", "N">>, <<"_">> } }
    \cup { [cpf |-> c, limit |-> 2, offset |-> 0] : c \in { "", "1" } }

(* ------------------------------- state --------------------------------- *)
VARIABLES
    centros_treinamento,  \* committed rows of the table, in id order (id = position)
    categorias,           \* committed rows of the table, in id order
    atletas,              \* committed rows of the table, in id order
    fkEnforced,           \* whether the SQLite library checks FOREIGN KEY clauses
    writers,              \* workers holding the database write transaction (at most one)
    pc,                   \* position of each worker in its handler
    arg,                  \* the request each worker is serving
    loc,                  \* handler locals of each worker
    res                   \* the response each worker produced

vars == <<centros_treinamento, categorias, atletas, fkEnforced, writers, pc, arg, loc, res>>

tables == <<centros_treinamento, categorias, atletas>>

NoArg == [op |-> "none"]
\* no IntegrityError; the handler locals before the INSERT has run
NoError == [kind |-> "none", column |-> ""]
NoLoc == [e |-> NoError]
NoRes == [status |-> 0]

Init ==
    /\ centros_treinamento = <<>>
    /\ categorias = <<>>
    /\ atletas = <<>>
    /\ fkEnforced \in BOOLEAN
    /\ writers = {}
    /\ pc = [p \in Procs |-> "idle"]
    /\ arg = [p \in Procs |-> NoArg]
    /\ loc = [p \in Procs |-> NoLoc]
    /\ res = [p \in Procs |-> NoRes]

(* --------------------------- pure helpers ------------------------------ *)
\* pydantic: a body validates against a model when every declared field is present
CentroTreinamentoSchema == {"id", "nome"}
CategoriaSchema == {"id", "nome"}
AtletaCreate == {"nome", "cpf", "centro_treinamento_id", "categoria_id"}
Validates(schema, body) == schema \subseteq DOMAIN body

\* as if the column were declared without unique=True
UniqueFailsNever(rows, col, value) == FALSE

\* UNIQUE column: the value is already held by a committed row
UniqueFails(rows, col, value) == \E i \in 1..Len(rows) : rows[i][col] = value

\* FOREIGN KEY column: the referenced id names no row of the parent table
ForeignKeyFails(parent, id) == fkEnforced /\ id \notin 1..Len(parent)

UniqueError(column) == [kind |-> "UNIQUE constraint failed", column |-> column]
ForeignKeyError == [kind |-> "FOREIGN KEY constraint failed", column |-> ""]

\* result of INSERT INTO centros_treinamento
InsertCentroError(nome) ==
    IF UniqueFails(centros_treinamento, "nome", nome)
    THEN UniqueError("centros_treinamento.nome") ELSE NoError

\* result of INSERT INTO categorias
InsertCategoriaError(nome) ==
    IF UniqueFails(categorias, "nome", nome)
    THEN UniqueError("categorias.nome") ELSE NoError

\* as if atletas.cpf carried no UNIQUE index
InsertAtletaErrorNoUnique(a) ==
    IF \/ ForeignKeyFails(centros_treinamento, a.centro_treinamento_id)
       \/ ForeignKeyFails(categorias, a.categoria_id)
    THEN ForeignKeyError
    ELSE NoError

\* result of INSERT INTO atletas: the UNIQUE index is checked as the row is
\* written, the foreign keys when the statement ends
InsertAtletaError(a) ==
    IF UniqueFails(atletas, "cpf", a.cpf) THEN UniqueError("atletas.cpf")
    ELSE IF \/ ForeignKeyFails(centros_treinamento, a.centro_treinamento_id)
            \/ ForeignKeyFails(categorias, a.categoria_id)
         THEN ForeignKeyError
         ELSE NoError

\* "UNIQUE constraint failed: atletas.cpf" in str(e.orig)
IsCpfUniqueError(e) == e.kind = "UNIQUE constraint failed" /\ e.column = "atletas.cpf"

Created(id) == [status |-> 201, id |-> id]
Conflict(msg, value) == [status |-> 303, detail |-> <<msg, value>>]
Unprocessable == [status |-> 422]
ServerError(e) == [status |-> 500, error |-> e]

\* as if create_atleta answered 303 to every IntegrityError, like the other two
create_atleta_except_any(e, cpf) ==
    Conflict("Ja existe um atleta cadastrado com o cpf: ", cpf)

\* except-branches of the three create handlers
create_atleta_except(e, cpf) ==
    IF IsCpfUniqueError(e)
    THEN Conflict("Ja existe um atleta cadastrado com o cpf: ", cpf)
    ELSE ServerError(e.kind)

create_centro_treinamento_except(e, nome) ==
    Conflict("Ja existe um centro de treinamento cadastrado com o nome: ", nome)

create_categoria_except(e, nome) ==
    Conflict("Ja existe uma categoria cadastrada com o nome: ", nome)

\* the values of a unique column that are stored or carried by a request in
\* flight; the model stops accepting new values when there are Max of them
Values(rows, col, op) ==
    { rows[i][col] : i \in 1..Len(rows) }
    \cup { arg[p].body[col] : p \in { r \in Procs : arg[r].op = op /\ pc[r] \in {"flush", "commit"} } }

(* ------------------------- GET /atletas/ helpers ----------------------- *)
\* lower(): SQLite folds the ASCII letters only
lowerChar(c) == CASE c = "A" -> "a" [] c = "N" -> "n" [] c = "B" -> "b" [] OTHER -> c
lower(s) == [i \in 1..Len(s) |-> lowerChar(s[i])]

\* the LIKE operator: "%" matches any run of characters, "_" any one character
RECURSIVE like(_, _)
like(s, pat) ==
    IF pat = <<>> THEN s = <<>>
    ELSE IF Head(pat) = "%"
         THEN like(s, Tail(pat)) \/ (s # <<>> /\ like(Tail(s), pat))
         ELSE s # <<>> /\ (Head(pat) = "_" \/ Head(pat) = Head(s)) /\ like(Tail(s), Tail(pat))

\* Atleta.nome.ilike(f"%{nome}%"), rendered as lower(nome) LIKE lower(pattern)
ilike(column, nome) == like(lower(column), lower(<<"%">> \o nome \o <<"%">>))

\* "if nome:" and "if cpf:" : a missing parameter and an empty one are both falsy
NomeGiven(q) == "nome" \in DOMAIN q /\ q.nome # <<>>
CpfGiven(q) == "cpf" \in DOMAIN q /\ q.cpf # ""

\* the WHERE clause built by get_atletas
Selected(a, q) ==
    /\ NomeGiven(q) => ilike(a.nome, q.nome)
    /\ CpfGiven(q) => a.cpf = q.cpf

\* the subsequence of the positions of s that lie in the set keep, in order
RECURSIVE Keep(_, _)
Keep(n, keep) ==
    IF n = 0 THEN <<>>
    ELSE IF n \in keep THEN Append(Keep(n - 1, keep), n) ELSE Keep(n - 1, keep)

\* query.all(): ids of the selected rows, in id order
QueryAll(rows, q) == Keep(Len(rows), { i \in 1..Len(rows) : Selected(rows[i], q) })

\* a.centro_treinamento / a.categoria : the related row, None when the id names no row
None == "None"
Related(parent, id) == IF id \in 1..Len(parent) THEN parent[id].nome ELSE None

\* AtletaResponse(nome=..., centro_treinamento=..., categoria=...)
AtletaResponse(a) ==
    [nome |-> a.nome,
     centro_treinamento |-> Related(centros_treinamento, a.centro_treinamento_id),
     categoria |-> Related(categorias, a.categoria_id)]

\* the fields centro_treinamento: str and categoria: str reject None
AtletaResponseValid(r) == r.centro_treinamento # None /\ r.categoria # None

Min(a, b) == IF a < b THEN a ELSE b

\* fastapi_pagination.paginate(result, params) with LimitOffsetParams
paginate(result, params) ==
    [status |-> 200,
     items |-> SubSeq(result, params.offset + 1, Min(params.offset + params.limit, Len(result))),
     total |-> Len(result),
     limit |-> params.limit,
     offset |-> params.offset]

(* ------------------------------ actions -------------------------------- *)
\* POST /centros_treinamento/ : body validation, CentroTreinamento(nome=...), db.add
create_centro_treinamento(p, body) ==
    /\ pc[p] = "idle"
    /\ Cardinality(Values(centros_treinamento, "nome", "create_centro_treinamento")
                      \cup {body.nome}) <= MaxCentros
    /\ arg' = [arg EXCEPT ![p] = [op |-> "create_centro_treinamento", body |-> body]]
    /\ IF Validates(CentroTreinamentoSchema, body)
       THEN /\ pc' = [pc EXCEPT ![p] = "flush"]
            /\ res' = res
       ELSE /\ pc' = [pc EXCEPT ![p] = "done"]
            /\ res' = [res EXCEPT ![p] = Unprocessable]
    /\ UNCHANGED <<tables, fkEnforced, writers, loc>>

\* POST /categorias/ : body validation, Categoria(nome=...), db.add
create_categoria(p, body) ==
    /\ pc[p] = "idle"
    /\ Cardinality(Values(categorias, "nome", "create_categoria")
                      \cup {body.nome}) <= MaxCategorias
    /\ arg' = [arg EXCEPT ![p] = [op |-> "create_categoria", body |-> body]]
    /\ IF Validates(CategoriaSchema, body)
       THEN /\ pc' = [pc EXCEPT ![p] = "flush"]
            /\ res' = res
       ELSE /\ pc' = [pc EXCEPT ![p] = "done"]
            /\ res' = [res EXCEPT ![p] = Unprocessable]
    /\ UNCHANGED <<tables, fkEnforced, writers, loc>>

\* POST /atletas/ : body validation, Atleta(**atleta.dict()), db.add
create_atleta(p, body) ==
    /\ pc[p] = "idle"
    /\ Cardinality(Values(atletas, "cpf", "create_atleta") \cup {body.cpf}) <= MaxAtletas
    /\ arg' = [arg EXCEPT ![p] = [op |-> "create_atleta", body |-> body]]
    /\ IF Validates(AtletaCreate, body)
       THEN /\ pc' = [pc EXCEPT ![p] = "flush"]
            /\ res' = res
       ELSE /\ pc' = [pc EXCEPT ![p] = "done"]
            /\ res' = [res EXCEPT ![p] = Unprocessable]
    /\ UNCHANGED <<tables, fkEnforced, writers, loc>>

\* first half of db.commit(): the flush sends the INSERT; the statement takes
\* the database write lock (waiting while another worker holds it) and the
\* constraints are checked against the committed rows
InsertError(a) ==
    CASE a.op = "create_centro_treinamento" -> InsertCentroError(a.body.nome)
      [] a.op = "create_categoria" -> InsertCategoriaError(a.body.nome)
      [] a.op = "create_atleta" -> InsertAtletaError(a.body)

\* as if the INSERT did not wait for the write transaction of another worker
FlushUnserialised(p) ==
    /\ pc[p] = "flush"
    /\ writers' = writers \cup {p}
    /\ LET e == InsertError(arg[p]) IN
         /\ loc' = [loc EXCEPT ![p] = [e |-> e]]
         /\ pc' = [pc EXCEPT ![p] = IF e = NoError THEN "commit" ELSE "except"]
    /\ UNCHANGED <<tables, fkEnforced, arg, res>>

Flush(p) ==
    /\ pc[p] = "flush"
    /\ writers = {}
    /\ writers' = {p}
    /\ LET e == InsertError(arg[p]) IN
         /\ loc' = [loc EXCEPT ![p] = [e |-> e]]
         /\ pc' = [pc EXCEPT ![p] = IF e = NoError THEN "commit" ELSE "except"]
    /\ UNCHANGED <<tables, fkEnforced, arg, res>>

\* as if the row were merged over the newest row instead of being added
Overwrite1(rows, row) ==
    IF rows = <<>> THEN <<row>> ELSE [rows EXCEPT ![Len(rows)] = row]

\* db.add(row): the INSERT adds the row with the next id
Append1(rows, row) == Append(rows, row)

\* second half of db.commit(), db.refresh(), return {"id": ...}

Commit(p) ==
    /\ pc[p] = "commit"
    /\ p \in writers
    /\ writers' = writers \ {p}
    /\ CASE arg[p].op = "create_centro_treinamento" ->
              /\ centros_treinamento' = Append1(centros_treinamento, [nome |-> arg[p].body.nome])
              /\ res' = [res EXCEPT ![p] = Created(Len(centros_treinamento'))]
              /\ UNCHANGED <<categorias, atletas>>
         [] arg[p].op = "create_categoria" ->
              /\ categorias' = Append1(categorias, [nome |-> arg[p].body.nome])
              /\ res' = [res EXCEPT ![p] = Created(Len(categorias'))]
              /\ UNCHANGED <<centros_treinamento, atletas>>
         [] arg[p].op = "create_atleta" ->
              /\ atletas' = Append1(atletas, arg[p].body)
              /\ res' = [res EXCEPT ![p] = Created(Len(atletas'))]
              /\ UNCHANGED <<centros_treinamento, categorias>>
    /\ pc' = [pc EXCEPT ![p] = "done"]
    /\ UNCHANGED <<fkEnforced, arg, loc>>

\* except exc.IntegrityError: db.rollback(), then the 303 response or raise
Except(p) ==
    /\ pc[p] = "except"
    /\ p \in writers
    /\ writers' = writers \ {p}
    /\ res' = [res EXCEPT ![p] =
         CASE arg[p].op = "create_centro_treinamento" ->
                create_centro_treinamento_except(loc[p].e, arg[p].body.nome)
           [] arg[p].op = "create_categoria" ->
                create_categoria_except(loc[p].e, arg[p].body.nome)
           [] arg[p].op = "create_atleta" ->
                create_atleta_except(loc[p].e, arg[p].body.cpf)]
    /\ pc' = [pc EXCEPT ![p] = "done"]
    /\ UNCHANGED <<tables, fkEnforced, arg, loc>>

\* GET /atletas/ : query.all(), the list comprehension, paginate(result, params)
get_atletas(p, q) ==
    /\ pc[p] = "idle"
    /\ arg' = [arg EXCEPT ![p] = [op |-> "get_atletas", q |-> q]]
    /\ LET ids == QueryAll(atletas, q)
           result == [i \in 1..Len(ids) |-> AtletaResponse(atletas[ids[i]])]
       IN res' = [res EXCEPT ![p] =
                    IF \A i \in 1..Len(result) : AtletaResponseValid(result[i])
                    THEN paginate(result, q)
                    ELSE ServerError("ValidationError")]
    /\ pc' = [pc EXCEPT ![p] = "done"]
    /\ UNCHANGED <<tables, fkEnforced, writers, loc>>

\* the response is sent and get_db closes the session
Return(p) ==
    /\ pc[p] = "done"
    /\ pc' = [pc EXCEPT ![p] = "idle"]
    /\ arg' = [arg EXCEPT ![p] = NoArg]
    /\ loc' = [loc EXCEPT ![p] = NoLoc]
    /\ res' = [res EXCEPT ![p] = NoRes]
    /\ UNCHANGED <<tables, fkEnforced, writers>>

Next ==
    \/ \E p \in Procs, body \in NomeBodies : create_centro_treinamento(p, body)
    \/ \E p \in Procs, body \in NomeBodies : create_categoria(p, body)
    \/ \E p \in Procs, body \in AtletaBodies : create_atleta(p, body)
    \/ \E p \in Procs, q \in Queries : get_atletas(p, q)
    \/ \E p \in Procs : Flush(p)
    \/ \E p \in Procs : Commit(p)
    \/ \E p \in Procs : Except(p)
    \/ \E p \in Procs : Return(p)

Spec == Init /\ [][Next]_vars

(* ===================== properties of the service ======================= *)
Creates == {"create_centro_treinamento", "create_categoria", "create_atleta"}
NomeCreates == {"create_centro_treinamento", "create_categoria"}

\* the table a create handler writes and the unique column of its body
TableOf(op) ==
    CASE op = "create_centro_treinamento" -> centros_treinamento
      [] op = "create_categoria" -> categorias
      [] op = "create_atleta" -> atletas
UniqueCol(op) == IF op = "create_atleta" THEN "cpf" ELSE "nome"
UniqueValue(a) == a.body[UniqueCol(a.op)]
RowsWith(rows, col, value) == { i \in 1..Len(rows) : rows[i][col] = value }

\* a reference of the athlete row names no stored row
Dangling(a) ==
    \/ a.centro_treinamento_id \notin 1..Len(centros_treinamento)
    \/ a.categoria_id \notin 1..Len(categorias)

\* a worker's create handler finishes in this step (commit or except branch)
CreateEnds(p, op) == arg[p].op = op /\ pc[p] \in {"commit", "except"} /\ pc'[p] = "done"

\* a worker serves a GET /atletas/ in this step
ListStep(p) == pc[p] = "idle" /\ pc'[p] = "done" /\ arg'[p].op = "get_atletas"

\* the request passed body validation and reached the handler
Handled(p) == pc[p] = "done" /\ arg[p].op \in Creates /\ res[p].status # 422

(* ---- C1 --------------------------------------------------------------- *)
\* C1: in every reachable state no two rows of centros_treinamento have the
\* same nome, no two rows of categorias have the same nome and no two rows of
\* atletas have the same cpf.
C1_Unique ==
    /\ \A i, j \in 1..Len(centros_treinamento) :
         i # j => centros_treinamento[i].nome # centros_treinamento[j].nome
    /\ \A i, j \in 1..Len(categorias) :
         i # j => categorias[i].nome # categorias[j].nome
    /\ \A i, j \in 1..Len(atletas) :
         i # j => atletas[i].cpf # atletas[j].cpf

\* all three tables hold rows and a duplicate has just been refused
C1_Witness ==
    /\ Len(centros_treinamento) >= 1 /\ Len(categorias) >= 1 /\ Len(atletas) >= 2
    /\ \E p \in Procs : Handled(p) /\ res[p].status = 303

(* ---- C2 --------------------------------------------------------------- *)
\* C2: a POST /centros_treinamento/ or POST /categorias/ whose body is just
\* a name is answered 201 with the id of the row that now holds the name, or
\* 303 with a detail naming the name when the name was already stored.
C2_Claim ==
    \A p \in Procs :
        (pc[p] = "done" /\ arg[p].op \in NomeCreates /\ DOMAIN arg[p].body = {"nome"}) =>
            \/ /\ res[p].status = 201
               /\ res[p].id \in 1..Len(TableOf(arg[p].op))
               /\ TableOf(arg[p].op)[res[p].id].nome = arg[p].body.nome
            \/ /\ res[p].status = 303
               /\ res[p].detail[2] = arg[p].body.nome

(* ---- C3 --------------------------------------------------------------- *)
\* C3 as stated: a POST /atletas/ whose cpf no stored athlete has is answered
\* 201 with the generated id and adds one row; one whose cpf is stored is
\* answered 303 naming the cpf and leaves the number of rows unchanged.
C3_Original ==
    [][\A p \in Procs : CreateEnds(p, "create_atleta") =>
         LET a == arg[p].body IN
           IF RowsWith(atletas, "cpf", a.cpf) # {}
           THEN /\ res'[p].status = 303
                /\ res'[p].detail[2] = a.cpf
                /\ Len(atletas') = Len(atletas)
           ELSE /\ res'[p] = [status |-> 201, id |-> Len(atletas) + 1]
                /\ atletas' = Append(atletas, a)]_vars

\* C3 amended: as C3, except that a POST /atletas/ with an unused cpf fails
\* with the unhandled error and adds no row when the storage enforces foreign
\* keys and one of its references names no stored row.
C3_Amended ==
    [][\A p \in Procs : CreateEnds(p, "create_atleta") =>
         LET a == arg[p].body IN
           IF RowsWith(atletas, "cpf", a.cpf) # {}
           THEN /\ res'[p].status = 303
                /\ res'[p].detail[2] = a.cpf
                /\ Len(atletas') = Len(atletas)
           ELSE IF fkEnforced /\ Dangling(a)
           THEN /\ res'[p].status = 500
                /\ Len(atletas') = Len(atletas)
           ELSE /\ res'[p] = [status |-> 201, id |-> Len(atletas) + 1]
                /\ atletas' = Append(atletas, a)]_vars

\* a stored cpf was sent again under another name and refused, and an unused
\* cpf was accepted
C3_Witness ==
    /\ \E p \in Procs :
         /\ Handled(p) /\ arg[p].op = "create_atleta" /\ res[p].status = 303
         /\ \E i \in 1..Len(atletas) :
              /\ atletas[i].cpf = arg[p].body.cpf
              /\ atletas[i].nome # arg[p].body.nome
    /\ \E p \in Procs :
         Handled(p) /\ arg[p].op = "create_atleta" /\ res[p].status = 201

(* ---- C4 --------------------------------------------------------------- *)
\* C4: when the INSERT of create_atleta fails with an integrity error other
\* than the UNIQUE violation on atletas.cpf, the answer is never 303: the
\* transaction is rolled back, the tables are unchanged and the error
\* surfaces as a server error.
C4_OtherIntegrityError ==
    [][\A p \in Procs :
         (/\ arg[p].op = "create_atleta" /\ pc[p] = "except" /\ pc'[p] = "done"
          /\ loc[p].e # UniqueError("atletas.cpf")) =>
            /\ res'[p].status = 500
            /\ res'[p].error = loc[p].e.kind
            /\ tables' = tables
            /\ p \notin writers']_vars

\* a foreign-key violation has been answered
C4_Witness ==
    \E p \in Procs :
        /\ pc[p] = "done" /\ arg[p].op = "create_atleta"
        /\ loc[p].e = ForeignKeyError
        /\ res[p].status = 500

(* ---- C5 --------------------------------------------------------------- *)
\* the athletes selected by the filters of q, in id order, each with the
\* names of its training centre and category
Resolved(q) ==
    LET ids == QueryAll(atletas, q)
    IN [i \in 1..Len(ids) |-> AtletaResponse(atletas[ids[i]])]

Max0(n) == IF n < 0 THEN 0 ELSE n

\* positions offset .. offset+limit-1 (counted from 0) of a list
PageOf(list, limit, offset) ==
    [k \in 1..Max0(Min(limit, Len(list) - offset)) |-> list[offset + k]]

\* C5: for every store, filter and (limit, offset), GET /atletas/ reports
\* total = the size of the filtered list and returns exactly the items at
\* positions offset .. offset+limit-1 of it.
C5_Claim ==
    [][\A p \in Procs : ListStep(p) =>
         LET q == arg'[p].q IN
           /\ res'[p].status = 200
           /\ res'[p].total = Len(Resolved(q))
           /\ res'[p].items = PageOf(Resolved(q), q.limit, q.offset)]_vars

\* whenever GET /atletas/ is answered 200 the page is the claimed one
PageWhenServed ==
    [][\A p \in Procs : (ListStep(p) /\ res'[p].status = 200) =>
         LET q == arg'[p].q IN
           /\ res'[p].total = Len(Resolved(q))
           /\ res'[p].items = PageOf(Resolved(q), q.limit, q.offset)]_vars

(* ---- C6 --------------------------------------------------------------- *)
\* C6: when a selected athlete refers to no stored training centre or
\* category, GET /atletas/ still answers 200 and reports that athlete with
\* the missing name null.
C6_Claim ==
    [][\A p \in Procs :
         (ListStep(p) /\ \E i \in 1..Len(atletas) :
                            Selected(atletas[i], arg'[p].q) /\ Dangling(atletas[i])) =>
            LET q == arg'[p].q IN
              /\ res'[p].status = 200
              /\ res'[p].items = PageOf(Resolved(q), q.limit, q.offset)
              /\ \A k \in 1..Len(res'[p].items) :
                   \E i \in 1..Len(atletas) :
                     /\ res'[p].items[k].nome = atletas[i].nome
                     /\ Dangling(atletas[i]) =>
                          \/ res'[p].items[k].centro_treinamento = None
                          \/ res'[p].items[k].categoria = None]_vars

(* ---- C7 --------------------------------------------------------------- *)
\* C7: for every cpf filter value supplied, the answer holds at most one
\* athlete, and only an athlete whose stored cpf equals the value.
C7_Claim ==
    [][\A p \in Procs :
         (ListStep(p) /\ "cpf" \in DOMAIN arg'[p].q /\ res'[p].status = 200) =>
            LET q == arg'[p].q IN
              /\ res'[p].total <= 1
              /\ Len(res'[p].items) <= 1
              /\ \A k \in 1..Len(res'[p].items) :
                   \E i \in 1..Len(atletas) :
                     /\ atletas[i].cpf = q.cpf
                     /\ res'[p].items[k] = AtletaResponse(atletas[i])]_vars

(* ---- C8 --------------------------------------------------------------- *)
\* t occurs in s as a run of consecutive characters, letter case ignored
ContainsNoCase(s, t) ==
    \E i \in 0..(Len(s) - Len(t)) :
        \A k \in 1..Len(t) : lowerChar(s[i + k]) = lowerChar(t[k])

\* C8: for every nome filter value supplied, the athletes returned are
\* exactly the stored athletes (matching the cpf filter, if any) whose nome
\* contains the value, letter case ignored.
C8_Claim ==
    [][\A p \in Procs :
         (ListStep(p) /\ "nome" \in DOMAIN arg'[p].q /\ res'[p].status = 200) =>
            LET q == arg'[p].q
                hits == { i \in 1..Len(atletas) :
                            /\ ContainsNoCase(atletas[i].nome, q.nome)
                            /\ ("cpf" \in DOMAIN q => atletas[i].cpf = q.cpf) }
            IN /\ res'[p].total = Cardinality(hits)
               /\ \A k \in 1..Len(res'[p].items) :
                    \E i \in hits : res'[p].items[k] = AtletaResponse(atletas[i])]_vars

(* ---- C9 --------------------------------------------------------------- *)
\* two requests that reached the same create handler with the same unique
\* value and whose responses are both pending delivery
Racing(p, q) ==
    /\ p # q /\ Handled(p) /\ Handled(q)
    /\ arg[p].op = arg[q].op
    /\ UniqueValue(arg[p]) = UniqueValue(arg[q])

\* C9 as stated: of the create requests that run concurrently with the same
\* unique value exactly one is answered 201 and every other one 303, and no
\* two rows hold the value.
C9_Original ==
    \A p, q \in Procs : Racing(p, q) =>
        /\ {res[p].status, res[q].status} = {201, 303}
        /\ Cardinality(RowsWith(TableOf(arg[p].op), UniqueCol(arg[p].op),
                                UniqueValue(arg[p]))) = 1

\* C9 amended: of the create requests that run concurrently with the same
\* unique value at most one is answered 201 and stores a row; every other
\* one is answered 303, and only while a row holds the value, or, for
\* create_atleta, fails with the unhandled foreign-key error; no two rows
\* hold the value.
C9_Amended ==
    \A p, q \in Procs : Racing(p, q) =>
        LET op == arg[p].op
            held == RowsWith(TableOf(op), UniqueCol(op), UniqueValue(arg[p]))
        IN /\ ~(res[p].status = 201 /\ res[q].status = 201)
           /\ \A r \in {p, q} :
                \/ res[r].status = 201 /\ held = {res[r].id}
                \/ res[r].status = 303 /\ Cardinality(held) = 1
                                       /\ res[r].detail[2] = UniqueValue(arg[r])
                \/ /\ res[r].status = 500 /\ op = "create_atleta"
                   /\ res[r].error = ForeignKeyError.kind /\ fkEnforced
           /\ Cardinality(held) <= 1

\* one of two racing requests won and the other was refused
C9_Witness ==
    \E p, q \in Procs :
        Racing(p, q) /\ res[p].status = 201 /\ res[q].status = 303

(* ---- C10 -------------------------------------------------------------- *)
IsAppend(new, old) == Len(new) = Len(old) + 1 /\ SubSeq(new, 1, Len(old)) = old

\* C10: every step either adds exactly one row to exactly one table, and
\* then it is a create answered 201, or leaves the three tables unchanged;
\* a GET /atletas/ and a create that ends in a conflict or an error leave
\* them unchanged; no stored row is ever changed or removed.
C10_AppendOnly ==
    [][/\ \/ tables' = tables
          \/ /\ IsAppend(centros_treinamento', centros_treinamento)
             /\ categorias' = categorias /\ atletas' = atletas
          \/ /\ IsAppend(categorias', categorias)
             /\ centros_treinamento' = centros_treinamento /\ atletas' = atletas
          \/ /\ IsAppend(atletas', atletas)
             /\ centros_treinamento' = centros_treinamento /\ categorias' = categorias
       /\ \A p \in Procs :
            (pc[p] # "done" /\ pc'[p] = "done") =>
               IF res'[p].status = 201
               THEN IsAppend(TableOf(arg[p].op)', TableOf(arg[p].op))
               ELSE tables' = tables]_vars

\* rows are stored and a listing, a conflict and an error have been answered
C10_Witness ==
    /\ Len(atletas) >= 1
    /\ \E p \in Procs : pc[p] = "done" /\ arg[p].op = "get_atletas"
    /\ \E p \in Procs : pc[p] = "done" /\ res[p].status \in {303, 500}

====
